---- MODULE Spec2Model ----
(***************************************************************************)
(* A model of src/script.js: the ScrollAnimator class (scroll-reveal       *)
(* controller plus parallax on the ".triangle" elements).                  *)
(*                                                                         *)
(* Units.  Visibility ratios and thresholds are percentages (0.15 is 15,   *)
(* the default 0.2 is 20).  A vertical translation is kept in tenths of a  *)
(* pixel, so that speed = 0.3 + 0.1 * index is the integer 3 + index.      *)
(* An angle is kept in tenths of a degree until Math.round makes it a      *)
(* whole number of degrees; a matrix component is kept times 1000.         *)
(*                                                                         *)
(* The document.  Three elements in document order: element 1 is a block   *)
(* that contains element 2; elements 2 and 3 carry class "triangle".       *)
(* Any element may carry the data-scroll attribute, and the page may add   *)
(* or remove it at any time (the DOM changes refresh() exists for).        *)
(***************************************************************************)
EXTENDS Integers, Sequences, FiniteSets, TLC

\* ---------------------------------------------------------------- bounds
MaxInits == 3
\* init() runs at most MaxInits times: construction, then MaxInits - 1 refreshes
MaxBatch == 2
\* entries in one batch handed to handleIntersection
MaxScroll == 1
\* window.pageYOffset ranges over 0..MaxScroll

\* ------------------------------------------------------ program constants
DefaultThreshold == 20
DefaultOffset == 0
DriverThreshold == 15
DriverOffset == 50

\* ------------------------------------------------------------ the document
Elems == {1, 2, 3}
None == 0
\* Parent[e]: the parent element of e, None for a child of the body
Parent == <<None, 1, None>>
\* document.querySelectorAll('.triangle'), in document order
Triangles == <<2, 3>>
\* the elements the page may give the data-scroll attribute
Markable == {1, 2}
NoAttr == "null"
\* values of the data-scroll-delay attribute; NoAttr is getAttribute's null
DelayValues == {NoAttr, "", "0", "200"}
\* intersection ratios the platform reports, in percent
Ratios == {0, 14, 16, 20}
\* e.style.transform when the script never assigned it
NoTransform == [assigned |-> FALSE, translateY |-> 0, rotate |-> 0]
NoBatch == <<>>

VARIABLES
    options,          \* this.options
    elements,         \* this.elements: the array collected by the last init()
    observed,         \* observed[o]: the targets of the o-th IntersectionObserver
    obsConfig,        \* obsConfig[o]: the options the o-th observer was built with
    marked,           \* the elements carrying data-scroll
    delayAttr,        \* delayAttr[e]: the data-scroll-delay attribute of e
    transitionDelay,  \* transitionDelay[e]: e.style.transitionDelay
    animated,         \* the elements whose classList contains 'animated'
    ticking,          \* ticking[l]: the flag in the closure of the l-th scroll listener
    rafQueue,         \* the outstanding requestAnimationFrame callbacks (listener ids)
    pageYOffset,      \* window.pageYOffset
    cssTransform,     \* cssTransform[e]: the computed transform of e while e.style.transform is unset
    transform,        \* transform[e]: e.style.transform, NoTransform when never set
    lastOp,           \* the operation that produced this state
    refreshRun,       \* how many refresh() calls in a row produced this state
    recording,        \* whether the handled batches are recorded in lastBatch
    lastBatch,        \* the batch just handled, when recorded (NoBatch otherwise)
    lastBefore,       \* animated as it was before that batch was handled
    lastWritten,      \* the triangles whose transform the frame just run assigned
    recomputations,   \* updateParallax runs of the frame just run
    delayAtObserve,   \* delayAtObserve[e]: e's transition delay when it was last observe()d
    stale,            \* a scroll event was dispatched since updateParallax last ran
    constructedWith,  \* the options object the constructor was called with
    rotationArg,      \* the argument of the last direct call of getRotationFromMatrix
    rotationResult    \* what that call returned

vars == <<options, elements, observed, obsConfig, marked, delayAttr, transitionDelay,
          animated, ticking, rafQueue, pageYOffset, cssTransform, transform, lastOp,
          refreshRun, recording, lastBatch, lastBefore, lastWritten, recomputations, delayAtObserve,
          stale, constructedWith, rotationArg, rotationResult>>

\* --------------------------------------------------------------------- text
\* A string is the sequence of its tokens: a punctuation mark, a blank, a
\* word, or a numeric literal with its value n (a matrix component times
\* 1000, a translation in tenths of a pixel).
Tok(k) == [k |-> k, n |-> 0]

Num(n) == [k |-> "num", n |-> n]

\* a value that is a string
Str(text) == [defined |-> TRUE, text |-> text]

\* undefined (a missing value)
Undefined == [defined |-> FALSE, text |-> <<>>]

\* the string 'none'
NoMatrix == Str(<<Tok("none")>>)

\* text.split(sep) for a one-character separator
RECURSIVE Split(_, _)
Split(text, sep) ==
    IF \E i \in DOMAIN text : text[i].k = sep
    THEN LET i == CHOOSE i \in DOMAIN text :
                      text[i].k = sep /\ \A j \in 1..(i - 1) : text[j].k # sep
         IN <<SubSeq(text, 1, i - 1)>> \o Split(SubSeq(text, i + 1, Len(text)), sep)
    ELSE <<text>>

NaN == [nan |-> TRUE, n |-> 0]

\* parseFloat(text): leading blanks are skipped, then the longest numeric
\* prefix is read; NaN when there is none
RECURSIVE ParseFloat(_)
ParseFloat(text) ==
    IF text = <<>> THEN NaN
    ELSE IF Head(text).k = " " THEN ParseFloat(Tail(text))
         ELSE IF Head(text).k = "num" THEN [nan |-> FALSE, n |-> Head(text).n]
              ELSE NaN

\* ------------------------------------------------------ getRotationFromMatrix
\* Angles are kept in tenths of a degree.  The angles the model knows, with
\* their cosine and sine times 1000.
KnownAngles ==
    {-1800, -1350, -900, -450, -230, -226, 0, 220, 224, 226, 230, 450, 900, 1350, 1800}

Cos1000(d) ==
    CASE d = 0 -> 1000
      [] d = 220 -> 927
      [] d = 224 -> 925
      [] d = 226 \/ d = -226 -> 923
      [] d = 230 \/ d = -230 -> 921
      [] d = 450 \/ d = -450 -> 707
      [] d = 900 \/ d = -900 -> 0
      [] d = 1350 \/ d = -1350 -> -707
      [] d = 1800 \/ d = -1800 -> -1000

Sin1000(d) ==
    CASE d = 0 \/ d = 1800 \/ d = -1800 -> 0
      [] d = 220 -> 375
      [] d = 224 -> 381
      [] d = 226 -> 384
      [] d = -226 -> -384
      [] d = 230 -> 391
      [] d = -230 -> -391
      [] d = 450 \/ d = 1350 -> 707
      [] d = 900 -> 1000
      [] d = -450 \/ d = -1350 -> -707
      [] d = -900 -> -1000

\* Math.atan2(b, a) * (180 / Math.PI), in tenths of a degree, for a vector
\* along a known angle.  atan2(0, a) is pi for a < 0, and atan2(0, 0) is 0.
Atan2Tenths(b, a) ==
    IF a = 0 /\ b = 0 THEN 0
    ELSE CHOOSE d \in KnownAngles \ {-1800} :
            /\ a * Sin1000(d) = b * Cos1000(d)
            /\ a * Cos1000(d) + b * Sin1000(d) > 0

\* Math.trunc in the place of Math.round
MathTrunc(t) == IF t >= 0 THEN t \div 10 ELSE -((-t) \div 10)

\* Math.round of a value in tenths: the nearest integer, a half going up
MathRound(t) == (t + 5) \div 10

\* what the browser computes for a transform that rotates by d (tenths of a
\* degree) and translates by ty: 'matrix(cos, sin, -sin, cos, 0, ty)'
RotationMatrix(d, ty) ==
    Str(<<Tok("matrix"), Tok("("),
          Num(Cos1000(d)), Tok(","), Tok(" "), Num(Sin1000(d)), Tok(","), Tok(" "),
          Num(-Sin1000(d)), Tok(","), Tok(" "), Num(Cos1000(d)), Tok(","), Tok(" "),
          Num(0), Tok(","), Tok(" "), Num(ty), Tok(")")>>)

\* a call that returned v
Returned(v) == [value |-> v, threw |-> FALSE, warned |-> FALSE]

\* a call that raised
Threw == [value |-> 0, threw |-> TRUE, warned |-> FALSE]

\* the try block of getRotationFromMatrix.  split('(')[1] is undefined for a
\* string without a parenthesis, and its .split raises a TypeError.
ExtractAngle(matrix) ==
    LET parts == Split(matrix.text, "(")
    IN IF Len(parts) < 2 THEN Threw
       ELSE LET values == Split(Split(parts[2], ")")[1], ",")
            IN IF Len(values) < 2 THEN Returned(0)
               ELSE LET a == ParseFloat(values[1])
                        b == ParseFloat(values[2])
                    IN IF a.nan \/ b.nan THEN Returned(0)
                       ELSE Returned(MathRound(Atan2Tenths(b.n, a.n)))

\* getRotationFromMatrix without its try and catch: the TypeError propagates
GetRotationFromMatrixUncaught(matrix) ==
    IF matrix = NoMatrix \/ ~matrix.defined \/ matrix.text = <<>> THEN Returned(0)
    ELSE ExtractAngle(matrix)

\* getRotationFromMatrix(matrix): the catch block warns and returns 0
GetRotationFromMatrix(matrix) ==
    IF matrix = NoMatrix \/ ~matrix.defined \/ matrix.text = <<>> THEN Returned(0)
    ELSE LET r == ExtractAngle(matrix)
         IN IF r.threw THEN [value |-> 0, threw |-> FALSE, warned |-> TRUE] ELSE r

\* ------------------------------------------------------------- constructor
Defaults == [threshold |-> DefaultThreshold, once |-> FALSE, offset |-> DefaultOffset]

OptionKeys == {"threshold", "once", "offset"}

\* the options objects a caller passes: any subset of the keys, with values
FullOptions == [threshold : {0, DriverThreshold}, once : BOOLEAN, offset : {DriverOffset}]

SuppliedOptions == {[k \in K |-> full[k]] : full \in FullOptions, K \in SUBSET OptionKeys}

\* the spread written before the defaults: { ...options, threshold: 0.2, ... }
MergeOptionsDefaultsWin(supplied) ==
    [k \in OptionKeys |-> Defaults[k]]

\* { threshold: 0.2, once: false, offset: 0, ...options }
MergeOptions(supplied) ==
    [k \in OptionKeys |-> IF k \in DOMAIN supplied THEN supplied[k] ELSE Defaults[k]]

\* the options of the page's own DOMContentLoaded handler
DriverOptions == [threshold |-> DriverThreshold, once |-> FALSE, offset |-> DriverOffset]

\* -------------------------------------------------------------------- init
\* the ascending sequence of the members of a set of elements (document order)
RECURSIVE InDocumentOrder(_)
InDocumentOrder(S) ==
    IF S = {} THEN <<>>
    ELSE LET m == CHOOSE x \in S : \A y \in S : x <= y
         IN <<m>> \o InDocumentOrder(S \ {m})

\* Array.from(document.querySelectorAll('[data-scroll]'))
QueryMarked(m) == InDocumentOrder(m)

\* new IntersectionObserver(cb, { threshold, rootMargin: `${offset}px` })
NewObserverConfig(opts) ==
    [threshold |-> opts.threshold, rootMargin |-> ToString(opts.offset) \o "px"]

\* ObserveElement with the two statements in the other order: the element is
\* observed, then the delay is applied
ObserveElementThenDelay(st, e, da) ==
    LET withDelay == IF da[e] # NoAttr /\ da[e] # ""
                     THEN [st.delay EXCEPT ![e] = da[e] \o "ms"]
                     ELSE st.delay
    IN [delay |-> withDelay,
        targets |-> st.targets \cup {e},
        atObserve |-> [st.atObserve EXCEPT ![e] = st.delay[e]]]

\* one turn of init's forEach: the delay is applied, then the element is observed.
\* st = [delay, targets, atObserve]
ObserveElement(st, e, da) ==
    LET withDelay == IF da[e] # NoAttr /\ da[e] # ""
                     THEN [st.delay EXCEPT ![e] = da[e] \o "ms"]
                     ELSE st.delay
    IN [delay |-> withDelay,
        targets |-> st.targets \cup {e},
        atObserve |-> [st.atObserve EXCEPT ![e] = withDelay[e]]]

RECURSIVE ObserveAll(_, _, _, _)
ObserveAll(st, els, i, da) ==
    IF i > Len(els) THEN st
    ELSE ObserveAll(ObserveElement(st, els[i], da), els, i + 1, da)

\* refresh() without its unobserve loop
UnobserveNone(obs, els) == obs

\* this.elements.forEach(element => this.observer.unobserve(element)) in refresh()
UnobserveAll(obs, els) ==
    IF obs = <<>> THEN obs
    ELSE [obs EXCEPT ![Len(obs)] = @ \ {els[i] : i \in 1..Len(els)}]

\* init() as an incremental update: the elements collected by the previous
\* init() are not observed again
RunInitObservesOnlyNew(c) ==
    LET els == QueryMarked(c.marked)
        st == ObserveAll([delay |-> c.transitionDelay, targets |-> {},
                          atObserve |-> c.delayAtObserve], els, 1, c.delayAttr)
    IN [elements |-> els,
        observed |-> Append(c.observed,
                            st.targets \ {c.elements[i] : i \in DOMAIN c.elements}),
        obsConfig |-> Append(c.obsConfig, NewObserverConfig(c.options)),
        transitionDelay |-> st.delay,
        delayAtObserve |-> st.atObserve,
        ticking |-> Append(c.ticking, FALSE)]

\* init(): collect the marked elements, build the observer, apply delays and
\* observe, then addParallaxEffect(): one more scroll listener, whose closure
\* holds its own ticking = false.  c is the controller and the page before
\* the call; the result is what init() assigns.
RunInit(c) ==
    LET els == QueryMarked(c.marked)
        st == ObserveAll([delay |-> c.transitionDelay, targets |-> {},
                          atObserve |-> c.delayAtObserve], els, 1, c.delayAttr)
    IN [elements |-> els,
        observed |-> Append(c.observed, st.targets),
        obsConfig |-> Append(c.obsConfig, NewObserverConfig(c.options)),
        transitionDelay |-> st.delay,
        delayAtObserve |-> st.atObserve,
        ticking |-> Append(c.ticking, FALSE)]

\* refresh(): unobserve this.elements on this.observer, then init()
RunRefresh(c) ==
    RunInit([c EXCEPT !.observed = UnobserveAll(c.observed, c.elements)])

\* the state of the controller and of the page that init() and refresh() read
Controller ==
    [options |-> options, marked |-> marked, delayAttr |-> delayAttr,
     elements |-> elements, observed |-> observed, obsConfig |-> obsConfig,
     transitionDelay |-> transitionDelay, delayAtObserve |-> delayAtObserve,
     ticking |-> ticking]

\* new ScrollAnimator(supplied) on a page whose marked elements are m, whose
\* delay attributes are da and whose stylesheet gives the computed transforms rot
Constructed(supplied, m, da, rot, rec) ==
    LET c0 == [options |-> MergeOptions(supplied), marked |-> m, delayAttr |-> da,
               elements |-> <<>>, observed |-> <<>>, obsConfig |-> <<>>,
               transitionDelay |-> [e \in Elems |-> ""],
               delayAtObserve |-> [e \in Elems |-> ""],
               ticking |-> <<>>]
        r == RunInit(c0)
    IN /\ options = c0.options
       /\ marked = m
       /\ delayAttr = da
       /\ cssTransform = rot
       /\ elements = r.elements
       /\ observed = r.observed
       /\ obsConfig = r.obsConfig
       /\ transitionDelay = r.transitionDelay
       /\ delayAtObserve = r.delayAtObserve
       /\ ticking = r.ticking
       /\ animated = {}
       /\ rafQueue = <<>>
       /\ pageYOffset = 0
       /\ transform = [e \in Elems |-> NoTransform]
       /\ lastOp = "construct"
       /\ refreshRun = 0
       /\ recording = rec
       /\ lastBatch = NoBatch
       /\ lastBefore = {}
       /\ lastWritten = {}
       /\ recomputations = 0
       /\ stale = FALSE
       /\ constructedWith = supplied
       /\ rotationArg = Undefined
       /\ rotationResult = Returned(0)

FixedDelays == [e \in Elems |-> IF e = 1 THEN "200" ELSE NoAttr]

\* the page's stylesheet: the first triangle is rotated by 45 degrees
FixedTransforms == [e \in Elems |-> IF e = 2 THEN RotationMatrix(450, 0) ELSE NoMatrix]

\* the pages the model starts from: any set of marked elements
Pages == SUBSET Markable

\* construction by the page's own DOMContentLoaded handler
Init ==
    \E m \in Pages : Constructed(DriverOptions, m, FixedDelays, FixedTransforms, FALSE)

\* construction in single-shot mode, the other options left to their defaults
InitOnce ==
    \E m \in Pages : Constructed([once |-> TRUE], m, FixedDelays, FixedTransforms, FALSE)

\* construction in reversible mode with any threshold; the batches are recorded
InitReveal ==
    \E supplied \in {o \in SuppliedOptions : ~MergeOptions(o).once}, m \in Pages :
        Constructed(supplied, m, FixedDelays, FixedTransforms, TRUE)

\* construction with any options object, on a page whose block is marked
InitConfig ==
    \E supplied \in SuppliedOptions :
        Constructed(supplied, {1}, FixedDelays, FixedTransforms, FALSE)

\* construction in either mode, the other options left to their defaults, on
\* the page with every marker set; the batches are recorded
InitBatch ==
    \E once \in BOOLEAN :
        Constructed([once |-> once], Markable, FixedDelays, FixedTransforms, TRUE)

\* what getComputedStyle may be taken to report for a triangle whose inline
\* transform is unset: no transform, a rotation, or a value that cannot be
\* read as a matrix (empty, non-numeric, without a parenthesis)
UnreadableTransforms ==
    {Str(<<>>),
     Str(<<Tok("matrix"), Tok("("), Tok("abc"), Tok(","), Tok(" "), Tok("def"), Tok(")")>>),
     Str(<<Tok("abc")>>)}

StyleTransforms ==
    [Elems -> {NoMatrix, RotationMatrix(450, 0), RotationMatrix(224, 0),
               RotationMatrix(-226, 0)} \cup UnreadableTransforms]

\* construction in either mode on a page whose triangles have any of these
\* transforms (the page's own when both the block and its triangle are
\* marked); the batches are recorded
InitParallax ==
    \E once \in BOOLEAN, m \in {{}, {2}, {1, 2}}, css \in StyleTransforms :
        /\ css[1] = NoMatrix
        /\ css[3] \in {NoMatrix, RotationMatrix(-226, 0), Str(<<Tok("abc")>>)}
        /\ m = {1, 2} => css = FixedTransforms
        /\ Constructed([once |-> once], m, FixedDelays, css, TRUE)

\* construction on a page with any delay attributes on the markable elements
InitDelay ==
    \E m \in Pages, da \in [Elems -> DelayValues] :
        /\ \A e \in Elems \ Markable : da[e] = NoAttr
        /\ Constructed(DriverOptions, m, da, FixedTransforms, FALSE)

\* ------------------------------------------------------- handleIntersection
\* The entries observer o can deliver.  The platform reports a target it
\* observes with its intersection ratio, and isIntersecting true when the
\* target meets the root and the ratio reaches the observer's threshold; a
\* target can meet the root at ratio 0 (edge-adjacent, or of zero area).
Geometries == {g \in [ratio : Ratios, meets : BOOLEAN] : g.ratio > 0 => g.meets}

PlatformEntries(o) ==
    {[target |-> e, intersectionRatio |-> g.ratio,
      isIntersecting |-> (g.meets /\ g.ratio >= obsConfig[o].threshold)] :
        e \in observed[o], g \in Geometries}

\* The batches of at most n entries from E.  One pass of the platform over the
\* targets queues at most one entry for each, so the targets of a batch differ.
Batches(E, n) ==
    LET targets == Cardinality({x.target : x \in E})
        longest == IF targets < n THEN targets ELSE n
    IN {b \in UNION {[1..k -> E] : k \in 1..longest} :
           \A i, j \in DOMAIN b : b[i].target = b[j].target => i = j}

\* HandleEntry with the guard of the else branch dropped: the class of an
\* element that left the viewport is never removed
HandleEntryNeverRemoves(st, entry, opts) ==
    IF entry.isIntersecting
    THEN [animated |-> st.animated \cup {entry.target},
          observed |-> IF opts.once
                       THEN [st.observed EXCEPT ![Len(st.observed)] = @ \ {entry.target}]
                       ELSE st.observed]
    ELSE st

\* HandleEntry with the test of the once option dropped in both branches
HandleEntryIgnoresOnce(st, entry, opts) ==
    IF entry.isIntersecting
    THEN [st EXCEPT !.animated = @ \cup {entry.target}]
    ELSE [st EXCEPT !.animated = @ \ {entry.target}]

\* HandleEntry revealing its target alone: the class is taken off every other
\* element when an entry is intersecting
HandleEntryRevealsAlone(st, entry, opts) ==
    IF entry.isIntersecting
    THEN [animated |-> {entry.target},
          observed |-> IF opts.once
                       THEN [st.observed EXCEPT ![Len(st.observed)] = @ \ {entry.target}]
                       ELSE st.observed]
    ELSE IF ~opts.once
         THEN [st EXCEPT !.animated = @ \ {entry.target}]
         ELSE st

\* one turn of handleIntersection's forEach.  st = [animated, observed]
HandleEntry(st, entry, opts) ==
    IF entry.isIntersecting
    THEN [animated |-> st.animated \cup {entry.target},
          observed |-> IF opts.once
                       THEN [st.observed EXCEPT ![Len(st.observed)] = @ \ {entry.target}]
                       ELSE st.observed]
    ELSE IF ~opts.once
         THEN [st EXCEPT !.animated = @ \ {entry.target}]
         ELSE st

RECURSIVE HandleEntries(_, _, _, _)
HandleEntries(st, entries, i, opts) ==
    IF i > Len(entries) THEN st
    ELSE HandleEntries(HandleEntry(st, entries[i], opts), entries, i + 1, opts)

\* observer o calls back handleIntersection(entries)
HandleIntersection(o, entries) ==
    LET st == HandleEntries([animated |-> animated, observed |-> observed],
                            entries, 1, options)
    IN /\ animated' = st.animated
       /\ observed' = st.observed
       /\ lastOp' = "io"
       /\ refreshRun' = 0
       /\ lastBatch' = IF recording THEN entries ELSE NoBatch
       /\ lastBefore' = IF recording THEN animated ELSE {}
       /\ lastWritten' = {}
       /\ recomputations' = 0
       /\ UNCHANGED <<recording, constructedWith, rotationArg, rotationResult, options, elements, obsConfig, marked, delayAttr, transitionDelay,
                      ticking, rafQueue, pageYOffset, cssTransform, transform,
                      delayAtObserve, stale>>

Notify ==
    \E o \in 1..Len(observed) :
        \E entries \in Batches(PlatformEntries(o), MaxBatch) :
            HandleIntersection(o, entries)

\* ------------------------------------------------------------------ refresh
Refresh ==
    /\ Len(observed) < MaxInits
    /\ LET r == RunRefresh(Controller)
       IN /\ elements' = r.elements
          /\ observed' = r.observed
          /\ obsConfig' = r.obsConfig
          /\ transitionDelay' = r.transitionDelay
          /\ delayAtObserve' = r.delayAtObserve
          /\ ticking' = r.ticking
    /\ lastOp' = "refresh"
    /\ refreshRun' = refreshRun + 1
    /\ lastBatch' = NoBatch
    /\ lastBefore' = {}
    /\ lastWritten' = {}
    /\ recomputations' = 0
    /\ UNCHANGED <<recording, constructedWith, rotationArg, rotationResult, options, marked, delayAttr, animated, rafQueue, pageYOffset,
                   cssTransform, transform, stale>>

\* ---------------------------------------------------------- addParallaxEffect
\* the l-th scroll listener: if (!ticking) { requestAnimationFrame(cb); ticking = true }
\* st = [ticking, rafQueue]
ScrollListener(st, l) ==
    IF ~st.ticking[l]
    THEN [ticking |-> [st.ticking EXCEPT ![l] = TRUE],
          rafQueue |-> Append(st.rafQueue, l)]
    ELSE st

\* a scroll event runs every installed listener, in the order of installation
RECURSIVE DispatchScroll(_, _)
DispatchScroll(st, l) ==
    IF l > Len(st.ticking) THEN st
    ELSE DispatchScroll(ScrollListener(st, l), l + 1)

\* the window is scrolled to offset y and the scroll event is dispatched
Scroll(y) ==
    LET st == DispatchScroll([ticking |-> ticking, rafQueue |-> rafQueue], 1)
    IN /\ pageYOffset' = y
       /\ ticking' = st.ticking
       /\ rafQueue' = st.rafQueue
       /\ stale' = TRUE
       /\ lastOp' = "scroll"
       /\ refreshRun' = 0
       /\ lastBatch' = NoBatch
       /\ lastBefore' = {}
       /\ lastWritten' = {}
       /\ recomputations' = 0
       /\ UNCHANGED <<recording, constructedWith, rotationArg, rotationResult, options, elements, observed, obsConfig, marked, delayAttr,
                      transitionDelay, animated, cssTransform, transform, delayAtObserve>>

\* -------------------------------------------------------------- updateParallax
\* e.closest('[data-scroll]'): the nearest of e and its ancestors that is in m
RECURSIVE Closest(_, _)
Closest(e, m) ==
    IF e = None THEN None
    ELSE IF e \in m THEN e ELSE Closest(Parent[e], m)

\* window.getComputedStyle(e).transform: the matrix of the inline style
\* 'translateY(..) rotate(..)' when the script has set it, else what the
\* stylesheet gives
ComputedTransform(e, tr) ==
    IF tr[e].assigned THEN RotationMatrix(10 * tr[e].rotate, tr[e].translateY)
    ELSE cssTransform[e]

\* the guard of updateParallax's forEach: the triangle is left alone
Skipped(e) == Closest(e, marked) # None /\ e \notin animated

\* UpdateTriangle adding the new translation to the one written before
UpdateTriangleAccumulates(st, i, scrolled) ==
    LET e == Triangles[i]
        speed == 3 + (i - 1)
        yPos == st.transform[e].translateY - (scrolled * speed)
        rotation == GetRotationFromMatrix(ComputedTransform(e, st.transform))
    IN IF Skipped(e) THEN st
       ELSE IF rotation.threw THEN [st EXCEPT !.threw = TRUE]
            ELSE [transform |-> [st.transform EXCEPT
                                    ![e] = [assigned |-> TRUE, translateY |-> yPos,
                                            rotate |-> rotation.value]],
                  written |-> st.written \cup {e},
                  threw |-> FALSE]

\* UpdateTriangle with the index counted over the triangles that are not skipped
UpdateTriangleIndexSkipsSkipped(st, i, scrolled) ==
    LET e == Triangles[i]
        speed == 3 + Cardinality({j \in 1..(i - 1) : ~Skipped(Triangles[j])})
        yPos == -(scrolled * speed)
        rotation == GetRotationFromMatrix(ComputedTransform(e, st.transform))
    IN IF Skipped(e) THEN st
       ELSE IF rotation.threw THEN [st EXCEPT !.threw = TRUE]
            ELSE [transform |-> [st.transform EXCEPT
                                    ![e] = [assigned |-> TRUE, translateY |-> yPos,
                                            rotate |-> rotation.value]],
                  written |-> st.written \cup {e},
                  threw |-> FALSE]

\* one turn of updateParallax's forEach, for Triangles[i] (index i - 1).
\* st = [transform, written, threw]; an exception raised by the callback
\* leaves the assignment undone.
UpdateTriangle(st, i, scrolled) ==
    LET e == Triangles[i]
        speed == 3 + (i - 1)
        yPos == -(scrolled * speed)
        rotation == GetRotationFromMatrix(ComputedTransform(e, st.transform))
    IN IF Skipped(e) THEN st
       ELSE IF rotation.threw THEN [st EXCEPT !.threw = TRUE]
            ELSE [transform |-> [st.transform EXCEPT
                                    ![e] = [assigned |-> TRUE, translateY |-> yPos,
                                            rotate |-> rotation.value]],
                  written |-> st.written \cup {e},
                  threw |-> FALSE]

\* triangles.forEach: an exception ends the loop
RECURSIVE UpdateTriangles(_, _, _)
UpdateTriangles(st, i, scrolled) ==
    IF i > Len(Triangles) \/ st.threw THEN st
    ELSE UpdateTriangles(UpdateTriangle(st, i, scrolled), i + 1, scrolled)

\* updateParallax()
UpdateParallax(st) == UpdateTriangles(st, 1, pageYOffset)

\* FrameCallback without the closing ticking = false
FrameCallbackLeavesGateShut(st, l) ==
    LET u == UpdateParallax([transform |-> st.transform, written |-> st.written,
                             threw |-> FALSE])
    IN [transform |-> u.transform, written |-> u.written, ticking |-> st.ticking]

\* the frame callback of listener l: updateParallax(); ticking = false.  An
\* exception out of updateParallax() ends the callback before the assignment.
\* st = [transform, written, ticking]
FrameCallback(st, l) ==
    LET u == UpdateParallax([transform |-> st.transform, written |-> st.written,
                             threw |-> FALSE])
    IN [transform |-> u.transform, written |-> u.written,
        ticking |-> IF u.threw THEN st.ticking ELSE [st.ticking EXCEPT ![l] = FALSE]]

RECURSIVE RunCallbacks(_, _, _)
RunCallbacks(st, queue, i) ==
    IF i > Len(queue) THEN st
    ELSE RunCallbacks(FrameCallback(st, queue[i]), queue, i + 1)

\* a display refresh: the browser runs every outstanding frame callback
AnimationFrame ==
    /\ rafQueue # <<>>
    /\ LET st == RunCallbacks([transform |-> transform, written |-> {},
                               ticking |-> ticking], rafQueue, 1)
       IN /\ transform' = st.transform
          /\ ticking' = st.ticking
          /\ lastWritten' = st.written
    /\ recomputations' = Len(rafQueue)
    /\ rafQueue' = <<>>
    /\ stale' = FALSE
    /\ lastOp' = "frame"
    /\ refreshRun' = 0
    /\ lastBatch' = NoBatch
    /\ lastBefore' = {}
    /\ UNCHANGED <<recording, constructedWith, rotationArg, rotationResult, options, elements, observed, obsConfig, marked, delayAttr,
                   transitionDelay, animated, pageYOffset, cssTransform, delayAtObserve>>

\* ------------------------------------------------------------------ the page
\* the page gives element e the data-scroll attribute
AddMarker(e) ==
    /\ e \notin marked
    /\ marked' = marked \cup {e}
    /\ lastOp' = "dom"
    /\ refreshRun' = 0
    /\ lastBatch' = NoBatch
    /\ lastBefore' = {}
    /\ lastWritten' = {}
    /\ recomputations' = 0
    /\ UNCHANGED <<recording, constructedWith, rotationArg, rotationResult, options, elements, observed, obsConfig, delayAttr, transitionDelay,
                   animated, ticking, rafQueue, pageYOffset, cssTransform, transform,
                   delayAtObserve, stale>>

\* the page takes the data-scroll attribute off element e
RemoveMarker(e) ==
    /\ e \in marked
    /\ marked' = marked \ {e}
    /\ lastOp' = "dom"
    /\ refreshRun' = 0
    /\ lastBatch' = NoBatch
    /\ lastBefore' = {}
    /\ lastWritten' = {}
    /\ recomputations' = 0
    /\ UNCHANGED <<recording, constructedWith, rotationArg, rotationResult, options, elements, observed, obsConfig, delayAttr, transitionDelay,
                   animated, ticking, rafQueue, pageYOffset, cssTransform, transform,
                   delayAtObserve, stale>>

\* the page sets or removes the data-scroll-delay attribute of element e
SetDelay(e, d) ==
    /\ delayAttr[e] # d
    /\ delayAttr' = [delayAttr EXCEPT ![e] = d]
    /\ lastOp' = "dom"
    /\ refreshRun' = 0
    /\ lastBatch' = NoBatch
    /\ lastBefore' = {}
    /\ lastWritten' = {}
    /\ recomputations' = 0
    /\ UNCHANGED <<recording, constructedWith, rotationArg, rotationResult, options, elements, observed, obsConfig, marked, transitionDelay,
                   animated, ticking, rafQueue, pageYOffset, cssTransform, transform,
                   delayAtObserve, stale>>

\* --------------------------------------------- getRotationFromMatrix, called
\* 'matrix(' args ')' with the given argument texts, separated by ', '
RECURSIVE JoinArgs(_)
JoinArgs(args) ==
    IF args = <<>> THEN <<>>
    ELSE IF Len(args) = 1 THEN Head(args)
         ELSE Head(args) \o <<Tok(","), Tok(" ")>> \o JoinArgs(Tail(args))

MatrixText(args) == Str(<<Tok("matrix"), Tok("(")>> \o JoinArgs(args) \o <<Tok(")")>>)

\* arguments that are absent, a sentinel, or not a matrix of two numbers
MalformedInputs ==
    {NoMatrix,                                            \* 'none'
     Str(<<>>),                                           \* ''
     Undefined,                                           \* a missing value
     MatrixText(<<>>),                                    \* 'matrix()'
     MatrixText(<<<<Tok("abc")>>, <<Tok("def")>>>>),      \* 'matrix(abc, def)'
     MatrixText(<<<<Num(1000)>>, <<Tok("def")>>>>),       \* 'matrix(1, def)'
     MatrixText(<<<<Num(1000)>>>>),                       \* 'matrix(1)'
     Str(<<Tok("abc")>>),                                 \* 'abc'
     Str(<<Tok("matrix"), Tok(" "), Num(1000), Tok(","), Num(0), Tok(")")>>),
                                                          \* 'matrix 1,0)'
     Str(<<Num(450)>>)}                                   \* '45'

\* the matrices of the pure rotations by the known angles, at two translations
RotationInputs == {RotationMatrix(d, ty) : d \in KnownAngles, ty \in {0, -3}}

\* scrollAnimator.getRotationFromMatrix(matrix), called directly
CallGetRotation(matrix) ==
    /\ rotationArg' = matrix
    /\ rotationResult' = GetRotationFromMatrix(matrix)
    /\ lastOp' = "rotation"
    /\ refreshRun' = 0
    /\ lastBatch' = NoBatch
    /\ lastBefore' = {}
    /\ lastWritten' = {}
    /\ recomputations' = 0
    /\ UNCHANGED <<recording, constructedWith, options, elements, observed, obsConfig,
                   marked, delayAttr, transitionDelay, animated, ticking, rafQueue,
                   pageYOffset, cssTransform, transform, delayAtObserve, stale>>

\* ------------------------------------------------------------ specifications
Next ==
    \/ Notify
    \/ Refresh
    \/ \E y \in 0..MaxScroll : Scroll(y)
    \/ AnimationFrame
    \/ \E e \in Markable : AddMarker(e)
    \/ \E e \in Markable : RemoveMarker(e)

\* the page's own controller, under every operation
Spec == Init /\ [][Next]_vars

\* a single-shot controller, under every operation; the page only takes
\* markers off
NextOnce ==
    \/ Notify
    \/ Refresh
    \/ \E y \in 0..MaxScroll : Scroll(y)
    \/ AnimationFrame
    \/ \E e \in Markable : RemoveMarker(e)

SpecOnce == InitOnce /\ [][NextOnce]_vars

\* the reveal mechanism alone, with the handled batches recorded
NextReveal ==
    \/ Notify
    \/ Refresh
    \/ \E e \in Markable : AddMarker(e)
    \/ \E e \in Markable : RemoveMarker(e)

SpecReveal == InitReveal /\ [][NextReveal]_vars

\* the reveal mechanism of a single-shot controller, on a page that changes
SpecOnceReveal == InitOnce /\ [][NextReveal]_vars

\* the scroll gate alone; the browser runs every requested frame callback
NextFrames ==
    \/ Refresh
    \/ \E y \in 0..MaxScroll : Scroll(y)
    \/ AnimationFrame

\* AnimationFrame as the queue shows it: the outstanding callbacks are run
FrameRuns == rafQueue # <<>> /\ rafQueue' = <<>>

SpecFrames == Init /\ [][NextFrames]_vars /\ WF_rafQueue(FrameRuns)

\* initialization against changing delay attributes
NextDelay ==
    \/ Notify
    \/ Refresh
    \/ \E e \in Markable : AddMarker(e)
    \/ \E e \in Markable : RemoveMarker(e)
    \/ \E e \in Markable, d \in DelayValues : SetDelay(e, d)

SpecDelay == InitDelay /\ [][NextDelay]_vars

\* a controller built with any options, under every operation of its own
NextConfig ==
    \/ Notify
    \/ Refresh
    \/ \E y \in 0..MaxScroll : Scroll(y)
    \/ AnimationFrame

SpecConfig == InitConfig /\ [][NextConfig]_vars

\* the reveal mechanism in both modes, with the handled batches recorded
NextBatch ==
    \/ Notify
    \/ Refresh

SpecBatch == InitBatch /\ [][NextBatch]_vars

\* the two mechanisms side by side, on pages with any triangle transforms
NextParallax ==
    \/ Notify
    \/ \E y \in 0..MaxScroll : Scroll(y)
    \/ AnimationFrame

SpecParallax == InitParallax /\ [][NextParallax]_vars

\* getRotationFromMatrix alone, called with every input of the model
NextRotation ==
    \/ \E matrix \in MalformedInputs \cup RotationInputs : CallGetRotation(matrix)
    \/ Refresh

SpecRotation == Init /\ [][NextRotation]_vars

\* ------------------------------------------------------------------ claims
\* the elements some observer observes
ObservedSet == UNION {observed[o] : o \in 1..Len(observed)}

\* this.observer
Current == Len(observed)

\* C1, as stated: in reversible mode, after a batch is handled every element
\* of the batch carries the class exactly when its reported ratio r reaches
\* the threshold t.  It fails at t = 0 for an element out of view (r = 0, not
\* intersecting): r >= t, and the class is removed.
C1_RevealedIffRatioReachesThreshold ==
    (lastOp = "io" /\ ~options.once) =>
        \A i \in DOMAIN lastBatch :
            (lastBatch[i].target \in animated)
                <=> (lastBatch[i].intersectionRatio >= options.threshold)

\* C1, amended: in reversible mode, after a batch is handled an element of the
\* batch carries the class exactly when its ratio reaches the threshold and,
\* at ratio 0, the entry reports it as intersecting.  For every t > 0 that is
\* r >= t, and a ratio below t removes the class of a revealed element.
C1_RevealedIffRatioReachesThresholdInView ==
    (lastOp = "io" /\ ~options.once) =>
        \A i \in DOMAIN lastBatch :
            LET r == lastBatch[i].intersectionRatio
                on == lastBatch[i].target \in animated
            IN /\ on <=> (r >= options.threshold /\ (r = 0 => lastBatch[i].isIntersecting))
               /\ options.threshold > 0 => (on <=> r >= options.threshold)

\* a revealed element was reported at 14% under the threshold 15% and lost
\* the class, while another entry of the batch revealed an element at 16%
C1_Witness ==
    /\ lastOp = "io"
    /\ ~options.once
    /\ options.threshold = DriverThreshold
    /\ \E i, j \in DOMAIN lastBatch :
        /\ lastBatch[i].target \in lastBefore
        /\ lastBatch[i].intersectionRatio = 14
        /\ lastBatch[i].target \notin animated
        /\ lastBatch[j].intersectionRatio = 16
        /\ lastBatch[j].target \in animated \ lastBefore

\* C2: in single-shot mode no step (notification, scroll, frame, refresh, or
\* a change of the page) removes the class from an element that carries it.
C2_RevealedIsSticky == [][options.once => animated \subseteq animated']_vars

\* the only watched element is revealed and still observed after a batch was
\* handled: refresh() observed it again, it was then reported as not
\* intersecting, and it kept the class
C2_Witness ==
    /\ options.once
    /\ lastOp = "io"
    /\ \E e \in Markable : elements = <<e>> /\ observed[Current] = {e} /\ e \in animated

\* C3, as stated: in single-shot mode no observer observes a revealed element,
\* whatever notifications, scroll ticks and refresh() calls came since.
C3_RevealedNeverObserved == options.once => animated \cap ObservedSet = {}

\* C3, amended: in single-shot mode an element is taken out of observation by
\* the batch that reveals it, and no notification, scroll tick or change of
\* the page puts a revealed element back; only refresh() observes again every
\* marked element, the revealed ones included.
C3_RevealedUnobservedUntilRefresh ==
    [][options.once =>
        /\ lastOp' = "io" => (animated' \ animated) \cap ObservedSet' = {}
        /\ lastOp' # "refresh" =>
              (animated \ ObservedSet) \cap ObservedSet' = {}]_vars

\* a marked element was revealed and is observed by nobody after a frame ran
C3_Witness ==
    /\ options.once
    /\ lastOp = "frame"
    /\ \E e \in marked : e \in animated /\ e \notin ObservedSet

\* C4: at most one frame callback of the controller is outstanding, and a
\* frame runs updateParallax at most once.  init() installs one more scroll
\* listener each time refresh() calls it, each with a gate of its own, so
\* after a refresh one scroll event requests two callbacks.
C4_OneRecomputationPerFrame == Len(rafQueue) <= 1 /\ recomputations <= 1

\* the flag of a listener is set exactly while its frame callback is outstanding
GateFollowsQueue ==
    \A l \in 1..Len(ticking) :
        ticking[l] <=> \E i \in DOMAIN rafQueue : rafQueue[i] = l

\* updateParallax has run since the last scroll event, and the triangle that
\* is never skipped (the last one) is placed for the current scroll offset
PlacedForCurrentOffset ==
    LET i == Len(Triangles)
    IN /\ ~stale
       /\ transform[Triangles[i]].assigned
       /\ transform[Triangles[i]].translateY = -(pageYOffset * (3 + (i - 1)))

\* C5: the browser running every requested frame callback, each scroll event
\* is followed by a run of updateParallax that reads the offset of that event
\* or a later one; a gate is shut only while its callback is outstanding.
C5_ScrollIsEventuallyApplied == []GateFollowsQueue /\ (stale ~> PlacedForCurrentOffset)

\* a frame ran after the window was scrolled away from the top, and opened the gate
C5_Witness ==
    /\ lastOp = "frame"
    /\ pageYOffset > 0
    /\ PlacedForCurrentOffset
    /\ \A l \in 1..Len(ticking) : ~ticking[l]

\* the watched element a triangle belongs to: closest('[data-scroll]')
WatchedAncestor(e) == Closest(e, marked)

\* C6: a frame leaves alone every triangle whose watched element (itself or
\* the nearest marked ancestor) does not carry the class.
C6_UnrevealedIsSkipped ==
    lastOp = "frame" =>
        \A i \in DOMAIN Triangles :
            (WatchedAncestor(Triangles[i]) # None
                /\ WatchedAncestor(Triangles[i]) \notin animated)
            => Triangles[i] \notin lastWritten

\* C7: a frame writes the transform of every triangle whose watched element
\* (itself or the nearest marked ancestor) carries the class.
C7_RevealedIsIncluded ==
    lastOp = "frame" =>
        \A i \in DOMAIN Triangles :
            (WatchedAncestor(Triangles[i]) # None
                /\ WatchedAncestor(Triangles[i]) \in animated)
            => Triangles[i] \in lastWritten

\* C8: refresh() changes the class of no element, and a refresh() that
\* follows a refresh() at once leaves the watched set and the set of observed
\* elements as the first one made them.
C8_RefreshIsIdempotent ==
    [][refreshRun' >= 1 =>
        /\ animated' = animated
        /\ refreshRun' >= 2 =>
              (ObservedSet' = ObservedSet /\ elements' = elements)]_vars

\* two refresh() calls in a row, on a page with a marked element and a
\* revealed element, after the page took the marker off a revealed element
C8_Witness ==
    /\ refreshRun = 2
    /\ marked # {}
    /\ animated \ marked # {}
    /\ ObservedSet = marked

\* C9: after construction and after refresh() the observed elements are the
\* elements that carry data-scroll, all observed by the new observer; every
\* older observer observes nothing, so no element has two observers.
C9_RefreshRebuildsObservation ==
    /\ lastOp \in {"construct", "refresh"} =>
          (observed[Current] = marked /\ elements = InDocumentOrder(marked))
    /\ \A o \in 1..(Current - 1) : observed[o] = {}
    /\ \A o1, o2 \in 1..Current : o1 # o2 => observed[o1] \cap observed[o2] = {}

\* refresh() ran on a page whose marked set had changed: a revealed element
\* has lost the marker, and a marked element is observed by the new observer
C9_Witness ==
    /\ lastOp = "refresh"
    /\ Current >= 2
    /\ animated \ marked # {}
    /\ observed[Current] # {}

\* the delay attribute of e holds a value (getAttribute returns a non-empty string)
DeclaresDelay(e) == delayAttr[e] \notin {NoAttr, ""}

\* the transition delay for a declared value
DelayText(d) == CASE d = "0" -> "0ms" [] d = "200" -> "200ms"

\* what init() leaves in the transition delay of e, given what it was before
DelayAfterInit(e, before, after, atObserve) ==
    IF e \in marked /\ DeclaresDelay(e)
    THEN after = DelayText(delayAttr[e]) /\ atObserve = DelayText(delayAttr[e])
    ELSE after = before

\* C10: init() gives every watched element that declares a delay d the
\* transition delay "d ms", and has done so when it observes the element;
\* it leaves the transition delay of every other element as it was.  So the
\* delay of an observed element is the one it had when it was observed.
C10_DelayAppliedBeforeObserve ==
    /\ lastOp = "construct" =>
          \A e \in Elems : DelayAfterInit(e, "", transitionDelay[e], delayAtObserve[e])
    /\ [][lastOp' = "refresh" =>
            \A e \in Elems :
                DelayAfterInit(e, transitionDelay[e], transitionDelay'[e],
                               delayAtObserve'[e])]_vars
    /\ [](\A e \in ObservedSet : delayAtObserve[e] = transitionDelay[e])

\* refresh() ran on a page where one watched element declares 200 and is
\* observed with "200ms", and another has lost its attribute and keeps "0ms"
C10_Witness ==
    /\ lastOp = "refresh"
    /\ \E e, f \in observed[Current] :
        /\ delayAttr[e] = "200"
        /\ transitionDelay[e] = "200ms"
        /\ delayAtObserve[e] = "200ms"
        /\ delayAttr[f] = NoAttr
        /\ transitionDelay[f] = "0ms"

\* C11: getRotationFromMatrix returns 0 and raises nothing for 'none', the
\* empty string, a missing value, 'matrix()', 'matrix(abc, def)', a matrix of
\* fewer than two components and a string without a parenthesis.
C11_MalformedGivesZero ==
    (lastOp = "rotation" /\ rotationArg \in MalformedInputs) =>
        (rotationResult.value = 0 /\ ~rotationResult.threw)

\* the call was made with a string without a parenthesis: the TypeError was
\* caught, the warning emitted and 0 returned
C11_Witness ==
    /\ lastOp = "rotation"
    /\ rotationArg = Str(<<Tok("abc")>>)
    /\ rotationResult = [value |-> 0, threw |-> FALSE, warned |-> TRUE]

\* the vertical offset of the triangle at zero-based index k for scroll offset
\* s, in tenths of a pixel: -(s * (0.3 + 0.1 * k))
ParallaxOffset(s, k) == -(s * (3 + k))

\* C12: a frame gives every triangle it does not skip the vertical offset
\* -(s * (0.3 + 0.1 * i)) for the scroll offset s, i being the triangle's
\* zero-based position among all triangles, the skipped ones counted.
C12_OffsetFollowsFormula ==
    lastOp = "frame" =>
        \A i \in DOMAIN Triangles :
            ~Skipped(Triangles[i]) =>
                /\ Triangles[i] \in lastWritten
                /\ transform[Triangles[i]].assigned
                /\ transform[Triangles[i]].translateY = ParallaxOffset(pageYOffset, i - 1)

\* a frame ran away from the top of the page, skipped the first triangle and
\* placed the second with the speed of index 1
C12_Witness ==
    /\ lastOp = "frame"
    /\ pageYOffset > 0
    /\ Skipped(Triangles[1])
    /\ lastWritten = {Triangles[2]}
    /\ transform[Triangles[2]].translateY = -(4 * pageYOffset)

\* the whole number of degrees nearest to an angle of d tenths of a degree
NearestDegree(d) == CHOOSE n \in -180..180 : 10 * n - 5 <= d /\ d < 10 * n + 5

\* the angles whose pure rotation the argument of the last call encodes
EncodedAngles == {d \in KnownAngles : \E ty \in {0, -3} : rotationArg = RotationMatrix(d, ty)}

\* C13, as stated: for the matrix of a pure rotation by theta in [-180, 180]
\* getRotationFromMatrix returns round(theta).  The rotations by -180 and by
\* 180 have the same matrix (-1, 0, 0, -1), for which atan2(0, -1) gives 180.
C13_RotationRoundTrip ==
    lastOp = "rotation" =>
        \A d \in EncodedAngles : rotationResult.value = NearestDegree(d)

\* C13, amended: for the matrix of a pure rotation by theta in (-180, 180]
\* getRotationFromMatrix returns round(theta); for theta = -180 it returns
\* 180, the same rotation.
C13_RotationRoundTripHalfOpen ==
    lastOp = "rotation" =>
        \A d \in EncodedAngles :
            /\ ~rotationResult.threw
            /\ d # -1800 => rotationResult.value = NearestDegree(d)
            /\ d = -1800 => rotationResult.value = 180

\* the call was made with the matrix of a rotation by 22.6 degrees, moved
\* down by a translation, and returned 23
C13_Witness ==
    /\ lastOp = "rotation"
    /\ rotationArg = RotationMatrix(226, -3)
    /\ rotationResult.value = 23

\* the text of a root margin of n pixels
PixelText(n) == CASE n = DefaultOffset -> "0px" [] n = DriverOffset -> "50px"

\* the default of an option
DefaultOf(k) ==
    CASE k = "threshold" -> DefaultThreshold
      [] k = "once" -> FALSE
      [] k = "offset" -> DefaultOffset

\* C14: this.options holds every supplied key with the supplied value and
\* every other key with its default (threshold 0.2, once false, offset 0); no
\* operation changes it; and every observer, the one built at construction
\* and the one built by each refresh(), has that threshold and that offset,
\* in pixels, as its root margin.
C14_OptionsMergedAndFixed ==
    /\ [](\A k \in OptionKeys :
            options[k] = IF k \in DOMAIN constructedWith
                         THEN constructedWith[k] ELSE DefaultOf(k))
    /\ [][options' = options]_vars
    /\ [](\A o \in 1..Len(obsConfig) :
            /\ obsConfig[o].threshold = options.threshold
            /\ obsConfig[o].rootMargin = PixelText(options.offset))

\* a controller built with { threshold: 0, offset: 50 } has been refreshed,
\* has handled a batch and run a frame: once is the default, and the second
\* observer is configured like the first
C14_Witness ==
    /\ DOMAIN constructedWith = {"threshold", "offset"}
    /\ options = [threshold |-> 0, once |-> FALSE, offset |-> DriverOffset]
    /\ Len(obsConfig) >= 2
    /\ obsConfig[2] = [threshold |-> 0, rootMargin |-> "50px"]
    /\ animated # {}
    /\ lastOp = "frame"

\* the orders in which the entries of a batch can be delivered
Orderings(batch) ==
    {[i \in DOMAIN batch |-> batch[p[i]]] :
        p \in {q \in [DOMAIN batch -> DOMAIN batch] :
                  \A i, j \in DOMAIN batch : q[i] = q[j] => i = j}}

\* C15: a batch in which every element appears at most once leaves the same
\* classes and the same observed elements in whatever order its entries are
\* handled.
C15_BatchOrderIndependent ==
    [][lastOp' = "io" =>
        \A batch \in Orderings(lastBatch') :
            LET st == HandleEntries([animated |-> animated, observed |-> observed],
                                    batch, 1, options)
            IN st.animated = animated' /\ st.observed = observed']_vars

\* a single-shot controller handled a batch of two entries: one revealed its
\* target and took it out of observation, the other reported an element that
\* is not intersecting and stays observed
C15_Witness ==
    /\ lastOp = "io"
    /\ options.once
    /\ Len(lastBatch) = 2
    /\ \E i, j \in DOMAIN lastBatch :
        /\ lastBatch[i].isIntersecting
        /\ lastBatch[i].target \in animated \ (lastBefore \cup ObservedSet)
        /\ ~lastBatch[j].isIntersecting
        /\ lastBatch[j].target \in ObservedSet \ animated

\* the elements a batch reports
Targets(batch) == {batch[i].target : i \in DOMAIN batch}

\* the elements with class "triangle"
TriangleSet == {Triangles[i] : i \in DOMAIN Triangles}

\* C16: handling a batch changes the class and the observation of no element
\* outside the batch and the transform of no element; a frame changes no
\* class, no observer's targets, not the watched set, and the transform of no
\* element that is not a triangle.
C16_MechanismsKeepApart ==
    [][/\ lastOp' = "io" =>
            /\ transform' = transform
            /\ Len(observed') = Len(observed)
            /\ \A e \in Elems \ Targets(lastBatch') :
                  /\ e \in animated' <=> e \in animated
                  /\ \A o \in 1..Len(observed) :
                        e \in observed'[o] <=> e \in observed[o]
       /\ lastOp' = "frame" =>
            /\ animated' = animated
            /\ observed' = observed
            /\ elements' = elements
            /\ \A e \in Elems \ TriangleSet : transform'[e] = transform[e]]_vars

\* after a frame had placed both triangles away from the top of the page, a
\* batch revealed one element while a revealed element outside the batch kept
\* its class
C16_Witness ==
    /\ lastOp = "io"
    /\ animated \ lastBefore # {}
    /\ animated \ Targets(lastBatch) # {}
    /\ \A e \in TriangleSet : transform[e].assigned /\ transform[e].translateY < 0
    /\ transform[1] = NoTransform

\* the rotation, in whole degrees, of a computed transform of the stylesheet:
\* the nearest degree of a rotation matrix, 0 for anything else
StyleRotation(m) ==
    IF \E d \in KnownAngles \ {-1800} : m = RotationMatrix(d, 0)
    THEN NearestDegree(CHOOSE d \in KnownAngles \ {-1800} : m = RotationMatrix(d, 0))
    ELSE 0

UnreadableTriangles ==
    {e \in TriangleSet :
        ~Skipped(e) /\ ~transform[e].assigned /\ cssTransform[e] \in UnreadableTransforms}

\* C18: a frame that meets a triangle with an unreadable transform completes:
\* it writes that triangle with rotation 0 and the offset of the formula,
\* writes every other triangle it does not skip with that triangle's own
\* offset and rotation, and opens the gate again.
C18_UnreadableTransformIsContained ==
    [][(lastOp' = "frame" /\ UnreadableTriangles # {}) =>
        /\ rafQueue' = <<>>
        /\ \A l \in 1..Len(ticking) : ~ticking'[l]
        /\ \A i \in DOMAIN Triangles :
            ~Skipped(Triangles[i]) =>
                /\ Triangles[i] \in lastWritten'
                /\ transform'[Triangles[i]].assigned
                /\ transform'[Triangles[i]].translateY = ParallaxOffset(pageYOffset, i - 1)
                /\ transform'[Triangles[i]].rotate =
                      IF Triangles[i] \in UnreadableTriangles THEN 0
                      ELSE IF transform[Triangles[i]].assigned
                           THEN transform[Triangles[i]].rotate
                           ELSE StyleRotation(cssTransform[Triangles[i]])]_vars

\* a frame away from the top of the page met a first triangle whose transform
\* has no parenthesis: it wrote it with rotation 0, and wrote the second
\* triangle with its own -23 degrees and the speed of index 1
C18_Witness ==
    /\ lastOp = "frame"
    /\ pageYOffset > 0
    /\ cssTransform[2] = Str(<<Tok("abc")>>)
    /\ cssTransform[3] = RotationMatrix(-226, 0)
    /\ lastWritten = TriangleSet
    /\ transform[2] = [assigned |-> TRUE, translateY |-> -(3 * pageYOffset), rotate |-> 0]
    /\ transform[3] = [assigned |-> TRUE, translateY |-> -(4 * pageYOffset), rotate |-> -23]

====
